---- MODULE Spec2Model ----
(***************************************************************************)
(* A model of datumaro's annotation visualizer                             *)
(* (src/src/datumaro/components/visualizer.py): the grid inference of the  *)
(* gallery, the rendering of one dataset item (vis_one_sample) with its    *)
(* per-kind drawers and their per-kind context, and the gallery loop.      *)
(*                                                                         *)
(* Lengths on the canvas are integers: one unit is 0.01 of the axes'       *)
(* height, which is also one pixel of the display (axes 100 pixels high).  *)
(* alpha is held in tenths (0 .. 10 stands for 0.0 .. 1.0).                *)
(***************************************************************************)
EXTENDS Integers, Sequences, FiniteSets, TLC

\* ------------------------------------------------------------------------
\* Bounds of the model
\* ------------------------------------------------------------------------
MaxLength == 12        \* number of gallery items handed to _infer_grid_size
MaxDim == 4            \* |nrows|, |ncols| of an explicit grid_size
MaxAnns == 2           \* annotations of an item, any kinds
MaxRepeat == 3         \* annotations of an item, kinds that keep a context
MaxId == 3             \* largest annotation id and largest ann_id filter
MaxZ == 0              \* largest explicit z_order
MaxGallery == 3        \* items of a vis_gallery call
MaxGalleryDim == 2     \* nrows, ncols of the grid_size of a vis_gallery call

\* Python's None, and an optional value holding n
None == <<>>
Some(n) == <<n>>
Val(o) == o[1]

\* ------------------------------------------------------------------------
\* _infer_grid_size (visualizer.py 54-77)
\* ------------------------------------------------------------------------

\* int(math.sqrt(length)) for length >= 0: the float root truncated
ISqrtRoundedUp(length) ==
    CHOOSE r \in 0..length : r * r >= length /\ (r = 0 \/ (r - 1) * (r - 1) < length)

ISqrt(length) == CHOOSE r \in 0..length : r * r <= length /\ length < (r + 1) * (r + 1)

\* int(length / n) for length >= 0, n > 0: the float quotient truncated
IntDiv(length, n) == length \div n

\* while nrows * ncols < length: nrows += 1   (the final nrows)
RECURSIVE GrowRows(_, _, _)
GrowRows(nrows, ncols, length) ==
    IF nrows * ncols < length THEN GrowRows(nrows + 1, ncols, length) ELSE nrows

\* while nrows * ncols < length: ncols += 1   (the final ncols)
RECURSIVE GrowColsOver(_, _, _)
GrowColsOver(nrows, ncols, length) ==
    IF nrows * ncols <= length THEN GrowColsOver(nrows, ncols + 1, length) ELSE ncols

RECURSIVE GrowCols(_, _, _)
GrowCols(nrows, ncols, length) ==
    IF nrows * ncols < length THEN GrowCols(nrows, ncols + 1, length) ELSE ncols

GridOk(nrows, ncols) == [status |-> "ok", nrows |-> nrows, ncols |-> ncols]
GridFail(exc) == [status |-> exc, nrows |-> 0, ncols |-> 0]

\* The three assertions that end _infer_grid_size. nrows is set here; ncols is
\* still None only when nrows <= 0, and then the first assertion fails first.
GridAsserts(length, nrows, ncols) ==
    IF ~(nrows > 0) THEN GridFail("AssertionError")
    ELSE IF ~(Val(ncols) > 0) THEN GridFail("AssertionError")
    ELSE IF ~(length <= nrows * Val(ncols)) THEN GridFail("AssertionError")
    ELSE GridOk(nrows, Val(ncols))

\* _infer_grid_size(length, grid_size), grid_size a pair of optionals.
\* `None > 0` raises TypeError: it is evaluated when nrows is None and the
\* given ncols is not positive.
InferGridSize(length, grid_size) ==
    LET nrows == grid_size[1]
        ncols == grid_size[2]
    IN  IF nrows = None /\ ncols = None
        THEN LET s == ISqrt(length)
             IN  GridAsserts(length, GrowRows(s, s, length), Some(s))
        ELSE IF nrows = None /\ Val(ncols) > 0
        THEN GridAsserts(length,
                         GrowRows(IntDiv(length, Val(ncols)), Val(ncols), length),
                         ncols)
        ELSE IF nrows = None
        THEN GridFail("TypeError")
        ELSE IF Val(nrows) > 0 /\ ncols = None
        THEN GridAsserts(length, Val(nrows),
                         Some(GrowCols(Val(nrows), IntDiv(length, Val(nrows)), length)))
        ELSE GridAsserts(length, Val(nrows), ncols)

\* ------------------------------------------------------------------------
\* Annotations, items, the dataset
\* ------------------------------------------------------------------------

\* AnnotationType, as _draw tells the kinds apart (visualizer.py 162-185);
\* "unknown" is any type _draw has no branch for
Kinds == {"label", "mask", "points", "polygon", "polyline", "bbox", "caption",
          "cuboid_3d", "super_resolution_annotation", "depth_annotation",
          "ellipse", "unknown"}

\* kinds whose drawer reads or writes its context
RepeatKinds == {"label", "caption", "super_resolution_annotation", "depth_annotation",
                "bbox"}
OrderKinds == {"label", "bbox"}

\* z_order of an annotation: None when the attribute is missing
ZOrders == {None} \cup {Some(z) : z \in -2..MaxZ}
AnnIds == 0..MaxId

Ann(t, id, z) == [type |-> t, id |-> id, z |-> z]

SeqsUpTo(S, n) == UNION {[1..m -> S] : m \in 0..n}

\* item.annotations of the items a dataset may hold:
\* any kinds, ids 1..n in list order, no z_order
ItemsByKind ==
    {[k \in DOMAIN s |-> Ann(s[k], k, None)] : s \in SeqsUpTo(Kinds, MaxAnns)}
\* longer items of the kinds that stack or may appear once, and of one that
\* does neither
ItemsByRepeat ==
    {[k \in DOMAIN s |-> Ann(s[k], k, None)] : s \in SeqsUpTo(RepeatKinds, MaxRepeat)}
\* any z_order, ids 1..n in list order
ItemsByOrder ==
    {[k \in DOMAIN s |-> Ann(s[k][1], k, s[k][2])] :
        s \in SeqsUpTo(OrderKinds \X ZOrders, MaxAnns)}
\* any ids, repeated ids included (Annotation.id is not checked to be unique)
ItemsById ==
    {[k \in DOMAIN s |-> Ann(s[k][1], s[k][2], None)] :
        s \in SeqsUpTo(OrderKinds \X AnnIds, MaxAnns)}

\* what self.dataset.get can return to a vis_one_sample call
DatasetItems == ItemsByKind \cup ItemsByRepeat \cup ItemsByOrder \cup ItemsById

\* what self.dataset.get can return to the vis_one_sample calls of a gallery
GalleryKinds == {"label", "depth_annotation", "super_resolution_annotation"}
GalleryItems ==
    {[k \in DOMAIN s |-> Ann(s[k], k, None)] : s \in SeqsUpTo(GalleryKinds, MaxAnns)}

\* alpha in tenths; the constructor asserts 0.0 <= alpha <= 1.0 (line 123)
Alphas == {0, 5, 10}
\* ignored_types of the constructor (line 118)
IgnoredChoices == {{}, {"label"}, {"label", "bbox"}, {"cuboid_3d", "depth_annotation"}}
\* the ann_id argument of vis_one_sample
AnnIdFilters == {None} \cup {Some(x) : x \in AnnIds}

\* what the plotting backend measures: the height of a drawn text
Heights == {0, 5, 10}

\* ------------------------------------------------------------------------
\* State
\* ------------------------------------------------------------------------
VARIABLES
    alpha,          \* self.alpha, in tenths
    ignored_types,  \* self.ignored_types
    pc,             \* vis_one_sample: "idle", "loop", "returned", "raised"
    item,           \* item.annotations of the item under render
    ann_id,         \* the ann_id argument
    order,          \* the sorted list, as positions of item.annotations
    i,              \* position in `order` of the next annotation of the loop
    context,        \* the defaultdict(list) of line 451
    visited,        \* positions of the annotations the loop has taken so far
    drawn,          \* positions of the annotations handed to self._draw (a
                    \* drawer invocation), in order
    warned,         \* the warnings.warn calls, in order
    canvas,         \* what was drawn on the axes, in order
    exc,            \* the exception that ended the call, or "none"
    grid,           \* the last _infer_grid_size call: its input and result
    gallery         \* the vis_gallery call in progress

vars == <<alpha, ignored_types, pc, item, ann_id, order, i, context,
          visited, drawn, warned, canvas, exc, grid, gallery>>

\* ------------------------------------------------------------------------
\* Visualizer helpers
\* ------------------------------------------------------------------------

\* draw_only_image (lines 128-133)
DrawOnlyImageNever == FALSE

DrawOnlyImage == alpha = 0

\* _sort_key of _sort_by_z_order (lines 192-194): getattr(ann, "z_order", -1)
SortKeyDefaultZero(ann) == IF ann.z = None THEN 0 ELSE Val(ann.z)

SortKey(ann) == IF ann.z = None THEN -1 ELSE Val(ann.z)

\* sorted(annotations, key=_sort_key) (line 196): Python's sort is stable.
\* The result is given as the positions of the input list, in sorted order;
\* the input list itself is not changed.
RECURSIVE InsertByKey(_, _, _)
InsertByKey(sorted, p, anns) ==
    IF sorted = <<>> THEN <<p>>
    ELSE IF SortKey(anns[sorted[Len(sorted)]]) <= SortKey(anns[p])
         THEN Append(sorted, p)
         ELSE Append(InsertByKey(SubSeq(sorted, 1, Len(sorted) - 1), p, anns),
                     sorted[Len(sorted)])

RECURSIVE SortPrefix(_, _)
SortPrefix(anns, n) ==
    IF n = 0 THEN <<>> ELSE InsertByKey(SortPrefix(anns, n - 1), n, anns)

SortByZOrder(anns) == SortPrefix(anns, Len(anns))

\* ------------------------------------------------------------------------
\* The plotting backend, as far as the drawers read it back
\* ------------------------------------------------------------------------

\* ax.transAxes and its inverse, on the vertical axis: the axes start 40
\* pixels above the bottom of the figure and one unit is one pixel
TransAxes(y) == 40 + y
TransAxesInverted(py) == py - 40

\* a drawn text: the annotation it belongs to, its anchor in axes units, the
\* vertical alignment of the anchor and the measured height of the text
Text(p, x, y, va, h) == [ann |-> p, x |-> x, y |-> y, va |-> va, h |-> h]
\* a drawn image (imshow)
AxesImage(p) == [ann |-> p, x |-> 0, y |-> 0, va |-> "image", h |-> 0]

\* text.get_window_extent(): vertical extent in display pixels
GetWindowExtent(text) ==
    IF text.va = "top"
    THEN [y0 |-> TransAxes(text.y) - text.h, y1 |-> TransAxes(text.y)]
    ELSE [y0 |-> TransAxes(text.y), y1 |-> TransAxes(text.y) + text.h]

Layer(what, p) == [what |-> what, ann |-> p]
Warning(what, p) == [what |-> what, ann |-> p]

\* what one drawer call does: the context list it leaves, the layers it adds
\* to the axes, the warnings it emits, the exception it raises ("none")
Effect(ctx, layers, warns, e) ==
    [context |-> ctx, layers |-> layers, warns |-> warns, exc |-> e]

\* CAPTION_BBOX_PAD (line 39), in tenths
CAPTION_BBOX_PAD == 2

\* ------------------------------------------------------------------------
\* The per-kind drawers (lines 464-700). p is the position of the annotation
\* in item.annotations, ctx the context list of its kind, m what the backend
\* and the annotation's content decide: m.h the height of the drawn text,
\* m.flag a mask that is not boolean / a Points with a visible point.
\* ------------------------------------------------------------------------

\* _draw_label (464-488)
DrawLabelAtAnchor(p, ctx, m) ==
    Effect(Append(ctx, Text(p, 1, 99, "top", m.h)), <<Layer("text", p)>>, <<>>, "none")

DrawLabel(p, ctx, m) ==
    LET y == IF Len(ctx) = 0
             THEN 99
             ELSE TransAxesInverted(GetWindowExtent(ctx[Len(ctx)]).y0)
    IN  Effect(Append(ctx, Text(p, 1, y, "top", m.h)), <<Layer("text", p)>>, <<>>, "none")

\* _draw_mask (490-513)
DrawMask(p, ctx, m) ==
    Effect(ctx, <<Layer("mask", p)>>,
           IF m.flag THEN <<Warning("mask_dtype", p)>> ELSE <<>>, "none")

\* _draw_points (515-535)
DrawPoints(p, ctx, m) ==
    Effect(ctx,
           IF m.flag THEN <<Layer("scatter", p), Layer("text", p)>>
                     ELSE <<Layer("scatter", p)>>,
           <<>>, "none")

\* _draw_polygon (537-569), for Polygon (fill) and PolyLine (no fill)
DrawPolygon(p, ctx, m, fill) ==
    Effect(ctx,
           IF fill THEN <<Layer("outline", p), Layer("fill", p), Layer("text", p)>>
                   ELSE <<Layer("outline", p), Layer("text", p)>>,
           <<>>, "none")

\* _draw_bbox (571-590)
DrawBbox(p, ctx, m) ==
    Effect(ctx, <<Layer("text", p), Layer("rectangle", p)>>, <<>>, "none")

\* _draw_caption (592-630)
DrawCaption(p, ctx, m) ==
    LET y == IF Len(ctx) = 0
             THEN 1
             ELSE LET text == ctx[Len(ctx)]
                  IN  TransAxesInverted(GetWindowExtent(text).y0
                          + ((10 + 2 * CAPTION_BBOX_PAD) * text.h) \div 10)
    IN  Effect(Append(ctx, Text(p, 50, y, "bottom", m.h)),
               <<Layer("caption", p)>>, <<>>, "none")

\* _draw_cuboid_3d (632-640)
DrawCuboid3d(p, ctx, m) == Effect(ctx, <<>>, <<>>, "NotImplementedError")

\* _draw_super_resolution_annotation (642-661)
DrawSuperResolutionAnnotation(p, ctx, m) ==
    IF Len(ctx) # 0
    THEN Effect(ctx, <<>>, <<>>, "AssertionError")
    ELSE Effect(Append(ctx, AxesImage(p)), <<Layer("overlay", p)>>,
                <<Warning("super_resolution", p)>>, "none")

\* _draw_depth_annotation (663-680)
DrawDepthAnnotationNoAssert(p, ctx, m) ==
    Effect(Append(ctx, AxesImage(p)), <<Layer("overlay", p), Layer("colorbar", p)>>,
           <<>>, "none")

DrawDepthAnnotation(p, ctx, m) ==
    IF Len(ctx) # 0
    THEN Effect(ctx, <<>>, <<>>, "AssertionError")
    ELSE Effect(Append(ctx, AxesImage(p)), <<Layer("overlay", p), Layer("colorbar", p)>>,
                <<>>, "none")

\* _draw_ellipse (682-700)
DrawEllipse(p, ctx, m) ==
    Effect(ctx, <<Layer("text", p), Layer("ellipse", p)>>, <<>>, "none")

\* _draw (135-185): the dispatch on ann.type
Draw(type, p, ctx, m) ==
    IF type = "label" THEN DrawLabel(p, ctx, m)
    ELSE IF type = "mask" THEN DrawMask(p, ctx, m)
    ELSE IF type = "points" THEN DrawPoints(p, ctx, m)
    ELSE IF type = "polygon" THEN DrawPolygon(p, ctx, m, TRUE)
    ELSE IF type = "polyline" THEN DrawPolygon(p, ctx, m, FALSE)
    ELSE IF type = "bbox" THEN DrawBbox(p, ctx, m)
    ELSE IF type = "caption" THEN DrawCaption(p, ctx, m)
    ELSE IF type = "cuboid_3d" THEN DrawCuboid3d(p, ctx, m)
    ELSE IF type = "super_resolution_annotation"
         THEN DrawSuperResolutionAnnotation(p, ctx, m)
    ELSE IF type = "depth_annotation" THEN DrawDepthAnnotation(p, ctx, m)
    ELSE IF type = "ellipse" THEN DrawEllipse(p, ctx, m)
    ELSE Effect(ctx, <<>>, <<>>, "ValueError")

\* what m can be for an annotation of a kind
Measures(type) ==
    IF type \in {"label", "caption"} THEN [h : Heights, flag : {FALSE}]
    ELSE IF type \in {"mask", "points"} THEN [h : {0}, flag : BOOLEAN]
    ELSE [h : {0}, flag : {FALSE}]

\* ------------------------------------------------------------------------
\* vis_one_sample (lines 379-462)
\* ------------------------------------------------------------------------

\* a subsets argument: one string, or a list of n strings
Subsets(str, n) == [str |-> str, len |-> n]

\* gallery.pc: "none", "running", "returned", "raised"; ids, ann_ids, subsets
\* as handed to vis_gallery (ids by its length); axs the number of regions
\* plt.subplots made; k the position of the zip of line 321; rendered the
\* vis_one_sample calls made, each with its region and its ann_id
NoGallery ==
    [pc |-> "none", ids |-> 0, ann_ids |-> <<>>, subsets |-> Subsets(FALSE, 0),
     axs |-> 0, k |-> 0, rendered |-> <<>>, exc |-> "none"]
NoGrid == [length |-> 0, grid_size |-> <<None, None>>, result |-> GridFail("none")]

EmptyContext == [t \in Kinds |-> <<>>]

\* line 451: context = defaultdict(list), a local of the call
CreateContextKept == context

CreateContext == EmptyContext

\* the ignore test of line 453
IsIgnoredNever(ann) == FALSE

IsIgnored(ann) == ann.type \in ignored_types

\* the filter test of line 459
IsSelectedAlways(ann) == TRUE

IsSelectedInverted(ann) == IF ann_id = None THEN TRUE ELSE Val(ann_id) # ann.id

IsSelected(ann) == IF ann_id = None THEN TRUE ELSE Val(ann_id) = ann.id

\* what the end of a vis_one_sample call (newpc) means to the vis_gallery
\* loop that made the call: the next item, or the exception going up
AfterSample(g, newpc) ==
    IF g.pc # "running" THEN g
    ELSE IF newpc = "raised" THEN [g EXCEPT !.pc = "raised"]
    ELSE IF newpc = "returned" THEN [g EXCEPT !.k = @ + 1]
    ELSE g

\* Lines 386-451: the item is looked up (found: dataset.get returned it, anns
\* its annotations), the image and the title are drawn, and unless alpha is 0
\* the annotations are sorted and the context is created.
EnterVisOneSample(found, anns, aid, g) ==
    /\ ann_id' = aid
    /\ i' = 1
    /\ context' = CreateContext
    /\ visited' = <<>>
    /\ drawn' = <<>>
    /\ warned' = <<>>
    /\ IF ~found
       THEN /\ item' = <<>>
            /\ order' = <<>>
            /\ canvas' = <<>>
            /\ pc' = "raised"
            /\ exc' = "AssertionError"
       ELSE /\ item' = anns
            /\ canvas' = <<Layer("image", 0), Layer("title", 0)>>
            /\ exc' = "none"
            /\ IF DrawOnlyImage
               THEN pc' = "returned" /\ order' = <<>>
               ELSE pc' = "loop" /\ order' = SortByZOrder(anns)
    /\ gallery' = AfterSample(g, pc')
    /\ UNCHANGED <<alpha, ignored_types, grid>>

\* a call of vis_one_sample by the user
VisOneSample ==
    /\ gallery.pc = "none"
    /\ pc = "idle"
    /\ \E found \in BOOLEAN, anns \in DatasetItems, aid \in AnnIdFilters :
          /\ (~found => anns = <<>> /\ aid = None)
          /\ EnterVisOneSample(found, anns, aid, gallery)

\* the annotation the loop of line 452 is at
InLoop == pc = "loop" /\ i <= Len(order)
Current == item[order[i]]

\* lines 453-457: the kind is ignored
StepIgnored ==
    /\ InLoop
    /\ IsIgnored(Current)
    /\ warned' = Append(warned, Warning("ignored", order[i]))
    /\ visited' = Append(visited, order[i])
    /\ i' = i + 1
    /\ UNCHANGED <<alpha, ignored_types, pc, item, ann_id, order, context, drawn,
                   canvas, exc, grid, gallery>>

\* line 459, condition false: another annotation was asked for
StepFiltered ==
    /\ InLoop
    /\ ~IsIgnored(Current)
    /\ ~IsSelected(Current)
    /\ visited' = Append(visited, order[i])
    /\ i' = i + 1
    /\ UNCHANGED <<alpha, ignored_types, pc, item, ann_id, order, context, drawn,
                   warned, canvas, exc, grid, gallery>>

\* line 460: self._draw(ann, ..., context[ann.type])
StepDraw ==
    /\ InLoop
    /\ ~IsIgnored(Current)
    /\ IsSelected(Current)
    /\ \E m \in Measures(Current.type) :
          LET type == Current.type
              eff == Draw(type, order[i], context[type], m)
          IN  /\ visited' = Append(visited, order[i])
              /\ drawn' = Append(drawn, order[i])
              /\ context' = [context EXCEPT ![type] = eff.context]
              /\ canvas' = canvas \o eff.layers
              /\ warned' = warned \o eff.warns
              /\ exc' = eff.exc
              /\ IF eff.exc = "none"
                 THEN pc' = pc /\ i' = i + 1
                 ELSE pc' = "raised" /\ i' = i
              /\ gallery' = AfterSample(gallery, pc')
    /\ UNCHANGED <<alpha, ignored_types, item, ann_id, order, grid>>

\* line 462: return fig
Return ==
    /\ pc = "loop"
    /\ i > Len(order)
    /\ pc' = "returned"
    /\ gallery' = AfterSample(gallery, "returned")
    /\ UNCHANGED <<alpha, ignored_types, item, ann_id, order, i, context, visited,
                   drawn, warned, canvas, exc, grid>>

\* ------------------------------------------------------------------------
\* vis_gallery (lines 289-324)
\* ------------------------------------------------------------------------

\* grid_size arguments
Dims == {None} \cup {Some(d) : d \in (0 - MaxDim)..MaxDim}
GalleryDims == {None} \cup {Some(d) : d \in 0..MaxGalleryDim}
GalleryFilters == {None, Some(1)}

\* the assertion of lines 310-312, after a string subsets was expanded to
\* len(ids) (lines 307-308)
SameLengthIdsSubsetsOnly(n, aids, subsets) ==
    n = (IF subsets.str THEN n ELSE subsets.len)

SameLength(n, aids, subsets) ==
    /\ n = Len(aids)
    /\ Len(aids) = (IF subsets.str THEN n ELSE subsets.len)

\* lines 295-321, up to the first turn of the loop: n = len(ids); aids the
\* ann_ids; subsets; grid_size. plt.subplots returns one Axes, not an array,
\* for a 1 x 1 grid, and axs.flatten() then raises AttributeError.
VisGallery ==
    /\ gallery.pc = "none"
    /\ pc = "idle"
    /\ grid = NoGrid
    /\ \E form \in 1..3, n \in 0..MaxGallery,
          aids \in SeqsUpTo(GalleryFilters, MaxGallery),
          subsets \in {Subsets(TRUE, 0)} \cup {Subsets(FALSE, m) : m \in 0..MaxGallery},
          grid_size \in GalleryDims \X GalleryDims :
          /\ form = 1 => subsets = Subsets(FALSE, n)
          /\ form \in {1, 2} => aids = [k \in 1..n |-> None]
          /\ LET g == [NoGallery EXCEPT !.ids = n, !.ann_ids = aids, !.subsets = subsets]
                 res == InferGridSize(n, grid_size)
             IN  IF ~SameLength(n, aids, subsets)
                 THEN /\ gallery' = [g EXCEPT !.pc = "raised", !.exc = "AssertionError"]
                      /\ grid' = grid
                 ELSE /\ grid' = [length |-> n, grid_size |-> grid_size, result |-> res]
                      /\ IF res.status # "ok"
                         THEN gallery' = [g EXCEPT !.pc = "raised", !.exc = res.status]
                         ELSE IF res.nrows * res.ncols = 1
                         THEN gallery' = [g EXCEPT !.pc = "raised", !.axs = 1,
                                                   !.exc = "AttributeError"]
                         ELSE gallery' = [g EXCEPT !.pc = "running", !.k = 1,
                                                   !.axs = res.nrows * res.ncols]
    /\ UNCHANGED <<alpha, ignored_types, pc, item, ann_id, order, i, context, visited,
                   drawn, warned, canvas, exc>>

Min(a, b) == IF a <= b THEN a ELSE b

\* axs.flatten() (line 321): the regions of the nrows x ncols grid, each by
\* its row and column, in row-major order
Flatten(nrows, ncols) ==
    [k \in 1..(nrows * ncols) |-> <<((k - 1) \div ncols) + 1, ((k - 1) % ncols) + 1>>]

\* the number of turns of zip(ids, subsets, ann_ids, axs.flatten()) (line 321)
ZipLen(g) ==
    Min(Min(g.ids, IF g.subsets.str THEN g.ids ELSE g.subsets.len),
        Min(Len(g.ann_ids), g.axs))

\* line 322: self.vis_one_sample(item_id, subset, ann_id=ann_id, ax=ax), with
\* the k-th id, subset, ann_id and the k-th region of axs.flatten()
GalleryVisOneSample ==
    /\ gallery.pc = "running"
    /\ pc \in {"idle", "returned"}
    /\ gallery.k <= ZipLen(gallery)
    /\ \E found \in BOOLEAN, anns \in GalleryItems :
          /\ (~found => anns = <<>>)
          /\ EnterVisOneSample(found, anns, gallery.ann_ids[gallery.k],
                [gallery EXCEPT !.rendered =
                    Append(@, [region |-> Flatten(grid.result.nrows,
                                                     grid.result.ncols)[gallery.k],
                               id |-> gallery.k,
                               ann_id |-> gallery.ann_ids[gallery.k]])])

\* line 324: return fig
GalleryReturn ==
    /\ gallery.pc = "running"
    /\ pc \in {"idle", "returned"}
    /\ gallery.k > ZipLen(gallery)
    /\ gallery' = [gallery EXCEPT !.pc = "returned"]
    /\ UNCHANGED <<alpha, ignored_types, pc, item, ann_id, order, i, context, visited,
                   drawn, warned, canvas, exc, grid>>

\* a call of _infer_grid_size on its own
InferGridSizeCall ==
    /\ gallery.pc = "none"
    /\ pc = "idle"
    /\ grid = NoGrid
    /\ \E length \in 0..MaxLength, grid_size \in Dims \X Dims :
          grid' = [length |-> length, grid_size |-> grid_size,
                   result |-> InferGridSize(length, grid_size)]
    /\ UNCHANGED <<alpha, ignored_types, pc, item, ann_id, order, i, context, visited,
                   drawn, warned, canvas, exc, gallery>>

\* the call of the user is over (its result returned or its exception
\* raised): its locals are gone
Idle ==
    /\ IF gallery.pc # "none"
       THEN gallery.pc \in {"returned", "raised"}
       ELSE pc \in {"returned", "raised"} \/ grid # NoGrid
    /\ pc' = "idle"
    /\ item' = <<>>
    /\ ann_id' = None
    /\ order' = <<>>
    /\ i' = 1
    /\ context' = EmptyContext
    /\ visited' = <<>>
    /\ drawn' = <<>>
    /\ warned' = <<>>
    /\ canvas' = <<>>
    /\ exc' = "none"
    /\ grid' = NoGrid
    /\ gallery' = NoGallery
    /\ UNCHANGED <<alpha, ignored_types>>

\* ------------------------------------------------------------------------
\* Specifications
\* ------------------------------------------------------------------------

\* after Visualizer.__init__ (lines 116-126), before any call
Constructed(alphas, ignored) ==
    /\ alpha \in alphas
    /\ ignored_types \in ignored
    /\ pc = "idle"
    /\ item = <<>>
    /\ ann_id = None
    /\ order = <<>>
    /\ i = 1
    /\ context = EmptyContext
    /\ visited = <<>>
    /\ drawn = <<>>
    /\ warned = <<>>
    /\ canvas = <<>>
    /\ exc = "none"
    /\ grid = NoGrid
    /\ gallery = NoGallery

Init == Constructed(Alphas, IgnoredChoices)

Next == VisOneSample \/ StepIgnored \/ StepFiltered \/ StepDraw \/ Return \/ Idle

Spec == Init /\ [][Next]_vars

NextGallery ==
    \/ VisGallery \/ GalleryVisOneSample \/ StepIgnored \/ StepFiltered \/ StepDraw
    \/ Return \/ GalleryReturn \/ Idle

\* the galleries are run with fewer configurations
InitGallery == Constructed({0, 10}, {{}, {"label"}})

SpecGallery == InitGallery /\ [][NextGallery]_vars

NextGrid == InferGridSizeCall \/ Idle

SpecGrid == Init /\ [][NextGrid]_vars

\* ------------------------------------------------------------------------
\* Properties of _infer_grid_size (checked under SpecGrid)
\* ------------------------------------------------------------------------

GridCalled == grid # NoGrid
CeilSqrt(n) == CHOOSE r \in 0..n : r * r >= n /\ (r = 0 \/ (r - 1) * (r - 1) < n)
CeilDiv(n, d) == (n + d - 1) \div d
Within1(a, b) == a - b \in {-1, 0, 1}
\* r is the smallest integer with r * c >= length
SmallestCover(r, c, length) == r * c >= length /\ (r - 1) * c < length

\* C1: for every length >= 1, _infer_grid_size(length, (None, None)) returns
\* (r, c) with c = floor(sqrt(length)) and r the smallest integer with
\* r * c >= length; r > 0, c > 0, and r and c are both within 1 of
\* ceil(sqrt(length)); length 5 gives (3, 2) and length 10 gives (4, 3).
C1_InferredGrid ==
    (GridCalled /\ grid.grid_size = <<None, None>> /\ grid.length >= 1) =>
        LET r == grid.result.nrows
            c == grid.result.ncols
            n == grid.length
        IN  /\ grid.result.status = "ok"
            /\ c * c <= n /\ n < (c + 1) * (c + 1)
            /\ SmallestCover(r, c, n)
            /\ r > 0 /\ c > 0
            /\ Within1(r, CeilSqrt(n)) /\ Within1(c, CeilSqrt(n))
            /\ (n = 5 => r = 3 /\ c = 2)
            /\ (n = 10 => r = 4 /\ c = 3)

C1_Witness ==
    /\ GridCalled /\ grid.grid_size = <<None, None>> /\ grid.length = 10
    /\ grid.result = GridOk(4, 3)

\* the three cases of C2 in which a dimension is given, the last one under
\* the condition `both` on a grid_size given in full
GivenDimensions(both(_, _, _)) ==
    (GridCalled /\ grid.length >= 1) =>
        LET rows == grid.grid_size[1]
            cols == grid.grid_size[2]
            n == grid.length
        IN  /\ (rows = None /\ cols # None /\ Val(cols) >= 1) =>
                   grid.result = GridOk(CeilDiv(n, Val(cols)), Val(cols))
            /\ (rows # None /\ cols = None /\ Val(rows) >= 1) =>
                   grid.result = GridOk(Val(rows), CeilDiv(n, Val(rows)))
            /\ (rows # None /\ cols # None) =>
                   (both(Val(rows), Val(cols), n) =>
                        grid.result = GridOk(Val(rows), Val(cols)))

Covers(rows, cols, n) == rows * cols >= n
PositiveAndCovers(rows, cols, n) == rows > 0 /\ cols > 0 /\ rows * cols >= n

\* C2 as stated: for every length >= 1, with only cols >= 1 given the result
\* is (ceil(length / cols), cols); with only rows >= 1 given it is
\* (rows, ceil(length / rows)); with both given and rows * cols >= length
\* they are returned unchanged.
C2_AsStated == GivenDimensions(Covers)

\* C2, amended: as stated, the last case only for rows > 0 and cols > 0 (two
\* negative dimensions whose product covers length fail the assertions).
C2_GivenDimensions == GivenDimensions(PositiveAndCovers)

C2_Witness ==
    /\ GridCalled
    /\ \/ grid.length = 5 /\ grid.grid_size = <<None, Some(2)>> /\ grid.result = GridOk(3, 2)
       \/ grid.length = 5 /\ grid.grid_size = <<Some(2), None>> /\ grid.result = GridOk(2, 3)
    /\ grid.result.nrows * grid.result.ncols > grid.length

\* C3: every call of _infer_grid_size with length >= 0 and each dimension
\* absent or any integer either returns rows > 0, cols > 0 with
\* rows * cols >= length, or fails with the assertion failure; a length of 0,
\* a given grid smaller than length and a given dimension that is not
\* positive all fail with the assertion failure.
C3_ValidOrAssertion ==
    GridCalled =>
        LET rows == grid.grid_size[1]
            cols == grid.grid_size[2]
            res == grid.result
            nonPositive == \/ (rows # None /\ Val(rows) <= 0)
                           \/ (cols # None /\ Val(cols) <= 0)
            tooSmall == rows # None /\ cols # None /\ Val(rows) * Val(cols) < grid.length
        IN  /\ \/ res.status = "ok" /\ res.nrows > 0 /\ res.ncols > 0
                  /\ res.nrows * res.ncols >= grid.length
               \/ res.status = "AssertionError"
            /\ (grid.length = 0 \/ nonPositive \/ tooSmall) =>
                   res.status = "AssertionError"

\* ------------------------------------------------------------------------
\* Properties of vis_one_sample (checked under Spec)
\* ------------------------------------------------------------------------

\* the item was found and its image drawn (line 424)
Resolved == pc # "idle" /\ canvas # <<>>
\* the call is over: returned, or ended by an exception after the image
Ended == Resolved /\ pc \in {"returned", "raised"}
BaseImage == <<Layer("image", 0), Layer("title", 0)>>

Positions == 1..Len(item)
OfKind(K) == {p \in Positions : item[p].type = K}
OfIgnoredKind == {p \in Positions : item[p].type \in ignored_types}
IgnoreWarnings == {k \in 1..Len(warned) : warned[k].what = "ignored"}
Range(s) == {s[k] : k \in 1..Len(s)}
NoRepeat(s) == \A a, b \in 1..Len(s) : a # b => s[a] # s[b]
\* C4: with alpha = 0, vis_one_sample on an item that resolves draws only the
\* base image, whatever the annotations and the ann_id: no drawer is invoked,
\* no warning is emitted, no annotation makes the call fail.
C4_AlphaZeroImageOnly ==
    (alpha = 0 /\ Resolved) =>
        /\ pc = "returned"
        /\ exc = "none"
        /\ drawn = <<>>
        /\ visited = <<>>
        /\ warned = <<>>
        /\ canvas = BaseImage

C4_Witness ==
    /\ alpha = 0 /\ pc = "returned"
    /\ ann_id # None
    /\ OfKind("cuboid_3d") # {}
    /\ OfKind("unknown") # {}

\* the count claimed by C5 for the ignored kinds in `kinds`, on a call with
\* alpha > 0 and no ann_id that returned
IgnoreCounts(kinds) ==
    (alpha > 0 /\ ann_id = None /\ pc = "returned") =>
        \A K \in kinds :
            /\ Len(drawn) = Len(item) - Cardinality(OfKind(K))
            /\ \A k \in 1..Len(drawn) : item[drawn[k]].type # K
            /\ Cardinality(IgnoreWarnings) = Cardinality(OfKind(K))

\* C5 as stated: with alpha > 0, no ann_id and a kind K in the ignored set,
\* an item of N annotations, M of them of kind K, gives exactly N - M drawer
\* invocations, none for kind K, and exactly M ignore warnings.
C5_AsStated == IgnoreCounts(ignored_types)

\* C5, amended: M counts the annotations of every ignored kind: N - M drawer
\* invocations, none for an annotation of an ignored kind, and one ignore
\* warning per annotation of an ignored kind; this is the count of kind K
\* when K is the only ignored kind on the item.
C5_IgnoredSkipped ==
    (alpha > 0 /\ ann_id = None /\ pc = "returned") =>
        /\ Len(drawn) = Len(item) - Cardinality(OfIgnoredKind)
        /\ NoRepeat(drawn)
        /\ Range(drawn) = Positions \ OfIgnoredKind
        /\ {warned[k].ann : k \in IgnoreWarnings} = OfIgnoredKind
        /\ Cardinality(IgnoreWarnings) = Cardinality(OfIgnoredKind)
        /\ IgnoreCounts({K \in ignored_types : OfIgnoredKind = OfKind(K)})

C5_Witness ==
    /\ alpha > 0 /\ ann_id = None /\ pc = "returned"
    /\ ignored_types = {"label"}
    /\ Len(item) = 3
    /\ Cardinality(OfKind("label")) = 2
    /\ Len(drawn) = 1
    /\ Cardinality(IgnoreWarnings) = 2

DistinctIds == \A p, q \in Positions : p # q => item[p].id # item[q].id
WithId(X) == {p \in Positions : item[p].id = X}

\* C6 as stated: with alpha > 0, any ignored set and pairwise distinct ids,
\* vis_one_sample with ann_id = X hands exactly one annotation to a drawer,
\* the one whose id is X, when there is one, and none otherwise.
C6_AsStated ==
    (alpha > 0 /\ Ended /\ ann_id # None /\ DistinctIds) =>
        IF WithId(Val(ann_id)) # {}
        THEN Len(drawn) = 1 /\ drawn[1] \in WithId(Val(ann_id))
        ELSE drawn = <<>>

\* C6, amended: exactly one, the one whose id is X, when there is one and its
\* kind is not ignored; none when no annotation has id X or the kind of the
\* one that has is ignored.
C6_FilterDrawsOne ==
    (alpha > 0 /\ Ended /\ ann_id # None /\ DistinctIds) =>
        IF WithId(Val(ann_id)) \ OfIgnoredKind # {}
        THEN Len(drawn) = 1 /\ drawn[1] \in WithId(Val(ann_id))
        ELSE drawn = <<>>

C6_Witness ==
    /\ alpha > 0 /\ Ended /\ DistinctIds
    /\ Len(item) = 3
    /\ ann_id = Some(2)
    /\ drawn = <<2>>
    /\ ignored_types # {}

\* the dispatches of the call to the drawer of kind K, in order
IsDepth(p) == item[p].type = "depth_annotation"
IsSuperResolution(p) == item[p].type = "super_resolution_annotation"
OncePerItem(dispatches, K) ==
    /\ Len(dispatches) <= 2
    /\ Len(dispatches) = 1 =>
          /\ Len(context[K]) = 1
          /\ ~(pc = "raised" /\ drawn[Len(drawn)] = dispatches[1])
    /\ Len(dispatches) = 2 =>
          /\ pc = "raised"
          /\ exc = "AssertionError"
          /\ drawn[Len(drawn)] = dispatches[2]
          /\ Len(context[K]) = 1

\* C8: within one vis_one_sample call the first dispatch to the
\* DepthAnnotation drawer succeeds and a second one fails with the assertion
\* failure, on the second attempt; the same for SuperResolutionAnnotation;
\* the two kinds are counted apart.
C8_OncePerItem ==
    Resolved =>
        /\ OncePerItem(SelectSeq(drawn, IsDepth), "depth_annotation")
        /\ OncePerItem(SelectSeq(drawn, IsSuperResolution), "super_resolution_annotation")

C8_Witness ==
    /\ pc = "raised" /\ exc = "AssertionError"
    /\ Len(drawn) = 3
    /\ item[drawn[1]].type = "super_resolution_annotation"
    /\ item[drawn[2]].type = "depth_annotation"
    /\ item[drawn[3]].type = "depth_annotation"

IsLabel(p) == item[p].type = "label"
Labels == context["label"]

\* C9: the first Label of an item is placed at the fixed top-left anchor and
\* each later one with its top at the bottom edge of the one drawn before
\* it; with texts of positive height the placements do not overlap and go
\* down in draw order; the Label context holds the labels drawn so far, in
\* draw order.
C9_LabelsStack ==
    Resolved =>
        /\ [k \in 1..Len(Labels) |-> Labels[k].ann] = SelectSeq(drawn, IsLabel)
        /\ Len(Labels) >= 1 => Labels[1].x = 1 /\ Labels[1].y = 99
        /\ \A k \in 2..Len(Labels) :
              /\ Labels[k].x = 1
              /\ Labels[k].y = Labels[k - 1].y - Labels[k - 1].h
        /\ (\A k \in 1..Len(Labels) : Labels[k].h > 0) =>
              \A a, b \in 1..Len(Labels) :
                  a < b => /\ Labels[b].y <= Labels[a].y - Labels[a].h
                           /\ Labels[b].y < Labels[a].y

C9_Witness ==
    /\ pc = "returned"
    /\ Len(Labels) = 3
    /\ Labels[1].h = 5 /\ Labels[2].h = 10 /\ Labels[3].h = 5
    /\ Labels[3].y = 84

\* z_order of an annotation, -1 when it has none
ZOrder(p) == IF item[p].z = None THEN -1 ELSE Val(item[p].z)
\* p comes before q: lower z_order, or the same and earlier in the list
Before(p, q) == ZOrder(p) < ZOrder(q) \/ (ZOrder(p) = ZOrder(q) /\ p < q)
InOrder(s) == \A a, b \in 1..Len(s) : a < b => Before(s[a], s[b])

\* C10: with alpha > 0 the annotations are taken (ignore test, filter test,
\* dispatch) in ascending z_order, a missing z_order counting as -1, and in
\* list order where the z_order is the same; every annotation is taken once
\* when the call returns; item.annotations is not changed.
C10_VisitOrderState ==
    (alpha > 0 /\ Resolved) =>
        /\ InOrder(visited)
        /\ InOrder(drawn)
        /\ Range(visited) \subseteq Positions
        /\ pc = "returned" => Range(visited) = Positions
        /\ Len(warned) <= Len(visited)

C10_VisitOrder ==
    /\ []C10_VisitOrderState
    /\ [][pc = "loop" => item' = item]_vars

C10_Witness ==
    /\ alpha > 0 /\ pc = "returned"
    /\ Len(item) = 2
    /\ item[1].z = None /\ item[2].z = Some(-2)
    /\ visited = <<2, 1>>

\* ------------------------------------------------------------------------
\* Properties of vis_gallery (checked under SpecGallery)
\* ------------------------------------------------------------------------

\* the lengths of ids, ann_ids and subsets differ, a single subset string
\* counting as len(ids) subsets
LengthsDiffer ==
    LET subsets == IF gallery.subsets.str THEN gallery.ids ELSE gallery.subsets.len
    IN  gallery.ids # Len(gallery.ann_ids) \/ gallery.ids # subsets

\* C7: vis_gallery on ids, ann_ids and subsets that are not all of the same
\* length fails before the grid is computed, before a region is made and
\* before an item is rendered: no vis_one_sample call is made.
C7_LengthMismatchFailsFirst ==
    (gallery.pc # "none" /\ LengthsDiffer) =>
        /\ gallery.pc = "raised"
        /\ gallery.exc = "AssertionError"
        /\ grid = NoGrid
        /\ gallery.axs = 0
        /\ gallery.rendered = <<>>
        /\ pc = "idle" /\ canvas = <<>>

C7_Witness ==
    /\ gallery.pc = "raised"
    /\ gallery.ids = 2
    /\ Len(gallery.ann_ids) = 3
    /\ gallery.subsets = Subsets(TRUE, 0)

\* ------------------------------------------------------------------------
\* The ann_id filter and the ignored kinds (checked under Spec)
\* ------------------------------------------------------------------------

\* the annotations taken so far whose id is not the ann_id asked for
Unmatched == {p \in Range(visited) : item[p].id # Val(ann_id)}
WarningsAbout(p) == {k \in 1..Len(warned) : warned[k].ann = p}

\* C11 as stated: with an ann_id filter set, an annotation whose id does not
\* match is skipped silently, whatever its kind and whatever the ignored set:
\* it is handed to no drawer and no warning is emitted for it.
C11_AsStated ==
    (alpha > 0 /\ Resolved /\ ann_id # None) =>
        \A p \in Unmatched :
            /\ p \notin Range(drawn)
            /\ WarningsAbout(p) = {}

\* C11, amended: an annotation whose id does not match is handed to no
\* drawer; it is skipped silently when its kind is not ignored, and with the
\* one ignore warning of its kind when its kind is ignored (the ignore test
\* comes before the filter test).
C11_UnmatchedSkipped ==
    (alpha > 0 /\ Resolved /\ ann_id # None) =>
        \A p \in Unmatched :
            /\ p \notin Range(drawn)
            /\ item[p].type \notin ignored_types => WarningsAbout(p) = {}
            /\ item[p].type \in ignored_types =>
                  /\ Cardinality(WarningsAbout(p)) = 1
                  /\ \A k \in WarningsAbout(p) : warned[k].what = "ignored"

C11_Witness ==
    /\ alpha > 0 /\ pc = "returned"
    /\ ignored_types = {"label"}
    /\ ann_id = Some(2)
    /\ Len(item) = 3
    /\ item[1].type = "label" /\ item[2].type = "bbox" /\ item[3].type = "caption"
    /\ visited = <<1, 2, 3>>
    /\ drawn = <<2>>
    /\ warned = <<Warning("ignored", 1)>>

\* ------------------------------------------------------------------------
\* The render context from call to call (checked under SpecGallery)
\* ------------------------------------------------------------------------

\* the kinds whose drawer appends to the context it is handed
AppendingKinds ==
    {"label", "caption", "super_resolution_annotation", "depth_annotation"}

\* the dispatches of this call that went through
Succeeded ==
    IF pc = "raised" /\ drawn # <<>> THEN SubSeq(drawn, 1, Len(drawn) - 1) ELSE drawn

SucceededOfKind(K) ==
    LET IsK(p) == p \in Positions /\ item[p].type = K
    IN  SelectSeq(Succeeded, IsK)

DispatchedOfKind(K) ==
    LET IsK(p) == p \in Positions /\ item[p].type = K
    IN  SelectSeq(drawn, IsK)

\* the annotations the context of kind K holds a handle of
HandlesOf(K) == [k \in 1..Len(context[K]) |-> context[K][k].ann]

ContextOfThisCall ==
    /\ ~Resolved => context = EmptyContext
    /\ Resolved =>
          /\ \A K \in Kinds :
                HandlesOf(K) = IF K \in AppendingKinds THEN SucceededOfKind(K) ELSE <<>>
          /\ Len(context["label"]) >= 1 =>
                context["label"][1].x = 1 /\ context["label"][1].y = 99
          /\ \A K \in {"depth_annotation", "super_resolution_annotation"} :
                Len(DispatchedOfKind(K)) = 1 =>
                    ~(pc = "raised" /\ drawn[Len(drawn)] = DispatchedOfKind(K)[1])

ContextStep ==
    context' # context =>
        IF context' = EmptyContext THEN TRUE
        ELSE IF ~InLoop THEN FALSE
        ELSE LET K == Current.type
                 n == Len(context[K])
             IN  /\ \A T \in Kinds \ {K} : context'[T] = context[T]
                 /\ K \in AppendingKinds
                 /\ Len(context'[K]) = n + 1
                 /\ SubSeq(context'[K], 1, n) = context[K]
                 /\ context'[K][n + 1].ann = order[i]

\* C12: the context is created empty by every vis_one_sample call and never
\* carried over. Through any sequence of vis_one_sample / vis_gallery calls
\* the context of each kind holds the handles of what this call's drawer of
\* that kind drew and nothing of an earlier call, so the first Label of
\* every item is at the fixed anchor and the first DepthAnnotation and the
\* first SuperResolutionAnnotation of every item are drawn without failure;
\* a step changes the context only by creating it empty or by appending one
\* handle to the context of the kind of the annotation being drawn.
C12_ContextPerCall ==
    /\ []ContextOfThisCall
    /\ [][ContextStep]_vars

\* the second item of a gallery, rendered after the first returned: its
\* Label is at the anchor and its DepthAnnotation is drawn
C12_Witness ==
    /\ gallery.pc = "running"
    /\ Len(gallery.rendered) = 2
    /\ pc = "returned"
    /\ Len(item) = 2
    /\ item[1].type = "label" /\ item[2].type = "depth_annotation"
    /\ drawn = <<1, 2>>
    /\ context["label"][1].y = 99
    /\ Len(context["depth_annotation"]) = 1

\* ------------------------------------------------------------------------
\* What a gallery renders (checked under SpecGallery)
\* ------------------------------------------------------------------------

GalleryEnded == gallery.pc \in {"returned", "raised"}

\* k >= 1 items, inputs of equal length, a grid that holds them
GalleryWellFormed ==
    /\ gallery.ids >= 1
    /\ SameLength(gallery.ids, gallery.ann_ids, gallery.subsets)
    /\ grid.result.status = "ok"
    /\ grid.result.nrows * grid.result.ncols >= gallery.ids

\* no vis_one_sample call of the gallery failed: every item was found and
\* every drawer went through
AllRendered == pc # "raised"

\* item j in the j-th region, row by row, with its own ann_id
RowMajor ==
    [j \in 1..gallery.ids |->
        [region |-> <<((j - 1) \div grid.result.ncols) + 1,
                      ((j - 1) % grid.result.ncols) + 1>>,
         id |-> j,
         ann_id |-> gallery.ann_ids[j]]]

\* C13: for k >= 1 resolvable items (k = 1 included) with inputs of equal
\* length and a grid, inferred or explicit, of capacity >= k, vis_gallery
\* returns having rendered each item exactly once, item i into the i-th
\* region of the grid in row-major order with its own ann_id filter, the
\* other rows * cols - k regions left undrawn.
C13_RendersEachItem ==
    (GalleryEnded /\ GalleryWellFormed /\ AllRendered) =>
        /\ gallery.pc = "returned"
        /\ gallery.rendered = RowMajor

====
